---- MODULE Spec2Model ----
(***************************************************************************)
(* SharedResourceManager of napari/_vispy/utils/shared_resource_manager.py *)
(* as a state machine.  The manager's four dictionaries are the state; the *)
(* public methods are the actions; every method is also a pure operator on *)
(* a record of the four dictionaries so that algebraic properties (calling *)
(* a method twice, calling it on a non-member) can be stated.              *)
(***************************************************************************)
EXTENDS Integers, Sequences, FiniteSets, TLC

VARIABLES
    layer_instances,        \* self._layer_instances: tag -> WeakSet of consumers
    shared_resources,       \* self._shared_resources: category -> handle
    resource_ref_counts,    \* self._resource_ref_counts: category -> int
    resource_dependencies,  \* self._resource_dependencies: category -> set of tags
    last,                   \* history: the call that produced this state
    pre,                    \* history: the four dictionaries before that call
    snapshot,               \* the object a get_resource_status() caller holds
    snapshot_at,            \* history: the four dictionaries at that call
    dropped,                \* consumers no longer referenced, not yet collected
    tpc,                    \* each thread's position in the call it makes
    tcall,                  \* each thread's call
    lock_owner,             \* self._resource_lock: the owning thread, 0 if free
    lock_count,             \* self._resource_lock: the owner's nesting depth
    ret,                    \* the value each thread's call returned
    seq,                    \* history: the calls applied one at a time
    seq_ret,                \* history: the values they return one at a time
    cls_instance,           \* SharedResourceManager._instance, 0 if None
    cls_lock,               \* SharedResourceManager._lock: the holder, 0 if free
    created,                \* the objects super().__new__ has created
    self_of,                \* the object __new__ returned to each thread
    attrs,                  \* the attributes set on each object
    writes,                 \* how often each attribute was assigned
    layer_class,            \* type(self.layer).__name__ of the layer classified
    tags_seen,              \* the tags _get_layer_type has returned for it
    views,                  \* the layer views (VispyBaseLayer objects)
    trace,                  \* history: the latest __init__ or close() of a view
    ledger                  \* history: the calls counted per category

mgrVars == <<layer_instances, shared_resources, resource_ref_counts,
             resource_dependencies>>

histVars == <<last, pre>>

statusVars == <<snapshot, snapshot_at>>

threadVars == <<tpc, tcall, lock_owner, lock_count, ret, seq, seq_ret>>

classVars == <<cls_instance, cls_lock, created, self_of, attrs, writes>>

viewVars == <<layer_class, tags_seen, views, trace>>

aux == <<statusVars, dropped, threadVars, classVars, viewVars, ledger>>

vars == <<layer_instances, shared_resources, resource_ref_counts,
          resource_dependencies, last, pre, aux>>

---------------------------------------------------------------------------
\* Bounds of the model.
NumTags == 3        \* tags passed to register_layer / unregister_layer
NumConsumers == 2   \* distinct consumer objects
MaxRef == 3         \* register_layer is not called past this ref count
NumThreads == 2     \* threads calling the manager at the same time
MaxNameParts == 2   \* a class name is made of at most this many parts

---------------------------------------------------------------------------
\* Static data.

\* The tags _get_layer_type can return, most shared first.
LayerTypes ==
    <<"points", "shapes", "unknown", "labels",
      "image", "surface", "tracks", "vectors">>

SevenTags ==
    {"points", "labels", "shapes", "image", "surface", "tracks", "vectors"}

Tags == {LayerTypes[i] : i \in 1..NumTags}

Consumers == 1..NumConsumers

Threads == 1..NumThreads

\* The objects the threads can create, one each at most.
Objects == 1..NumThreads

\* The attributes __init__ assigns, in the order of its assignments.
InitAttrs ==
    <<"_initialized", "_layer_instances", "_shared_resources",
      "_resource_ref_counts", "_resource_dependencies", "_resource_lock">>

\* The dependency table of _ensure_layer_resources with its .get default.
dependencies(layer_type) ==
    CASE layer_type = "points" ->
            <<"vertex_buffers", "marker_shaders", "transform_matrices">>
      [] layer_type = "labels" ->
            <<"texture_units", "label_shaders", "color_maps",
              "transform_matrices">>
      [] layer_type = "shapes" ->
            <<"vertex_buffers", "geometry_shaders", "transform_matrices">>
      [] layer_type = "image" ->
            <<"texture_units", "image_shaders", "volume_rendering",
              "transform_matrices">>
      [] layer_type = "surface" ->
            <<"vertex_buffers", "mesh_shaders", "normal_buffers",
              "transform_matrices">>
      [] layer_type = "tracks" ->
            <<"vertex_buffers", "line_shaders", "transform_matrices">>
      [] layer_type = "vectors" ->
            <<"vertex_buffers", "arrow_shaders", "transform_matrices">>
      [] OTHER -> <<"transform_matrices">>

Range(s) == {s[i] : i \in 1..Len(s)}

\* Categories a tag needs, as a set.
DepSet(layer_type) == Range(dependencies(layer_type))

Categories == UNION {DepSet(LayerTypes[i]) : i \in 1..Len(LayerTypes)}

---------------------------------------------------------------------------
\* Class names and _get_layer_type.  A string is a sequence of characters.

UpperCase ==
    <<"A", "B", "C", "D", "E", "F", "G", "H", "I", "J", "K", "L", "M",
      "N", "O", "P", "Q", "R", "S", "T", "U", "V", "W", "X", "Y", "Z">>

LowerCase ==
    <<"a", "b", "c", "d", "e", "f", "g", "h", "i", "j", "k", "l", "m",
      "n", "o", "p", "q", "r", "s", "t", "u", "v", "w", "x", "y", "z">>

\* str.lower() on one character.
lower_char(ch) ==
    IF \E i \in DOMAIN UpperCase : UpperCase[i] = ch
    THEN LowerCase[CHOOSE i \in DOMAIN UpperCase : UpperCase[i] = ch]
    ELSE ch

\* str.lower()
lower(s) == [i \in DOMAIN s |-> lower_char(s[i])]

\* sub in s
contains(s, sub) ==
    \E i \in 0..(Len(s) - Len(sub)) :
        \A j \in DOMAIN sub : s[i + j] = sub[j]

\* The characters of each tag's keyword.
keyword(tag) ==
    CASE tag = "points" -> <<"p", "o", "i", "n", "t", "s">>
      [] tag = "labels" -> <<"l", "a", "b", "e", "l", "s">>
      [] tag = "shapes" -> <<"s", "h", "a", "p", "e", "s">>
      [] tag = "image" -> <<"i", "m", "a", "g", "e">>
      [] tag = "surface" -> <<"s", "u", "r", "f", "a", "c", "e">>
      [] tag = "tracks" -> <<"t", "r", "a", "c", "k", "s">>
      [] tag = "vectors" -> <<"v", "e", "c", "t", "o", "r", "s">>

\* Line 351 of _get_layer_type.
class_name_lower(layer_class_name) == lower(layer_class_name)

\* The parts class names are made of: the seven keywords in several
\* spellings, and parts that hold no keyword by themselves.
NameParts ==
    {<<"P", "o", "i", "n", "t", "s">>,
     <<"l", "a", "b", "e", "l", "s">>,
     <<"S", "H", "A", "P", "E", "S">>,
     <<"I", "m", "a", "g", "e">>,
     <<"S", "u", "r", "f", "a", "c", "e">>,
     <<"T", "r", "a", "c", "k", "s">>,
     <<"V", "e", "c", "t", "o", "r", "s">>,
     <<"L", "a", "y", "e", "r">>,
     <<"P", "o", "i", "n", "t">>,
     <<"s">>,
     <<"2", "D">>}

\* The class names made of exactly n parts.
RECURSIVE NamesOf(_)
NamesOf(n) ==
    IF n = 0
    THEN {<<>>}
    ELSE {a \o b : a \in NamesOf(n - 1), b \in NameParts}

ClassNames == UNION {NamesOf(n) : n \in 1..MaxNameParts}

\* Mutant: no tag is returned when no keyword matches.
get_layer_type_no_default(layer_class_name) ==
    LET class_name == class_name_lower(layer_class_name)
    IN  IF contains(class_name, keyword("points")) THEN "points"
        ELSE IF contains(class_name, keyword("labels")) THEN "labels"
        ELSE IF contains(class_name, keyword("shapes")) THEN "shapes"
        ELSE IF contains(class_name, keyword("image")) THEN "image"
        ELSE IF contains(class_name, keyword("surface")) THEN "surface"
        ELSE IF contains(class_name, keyword("tracks")) THEN "tracks"
        ELSE IF contains(class_name, keyword("vectors")) THEN "vectors"
        ELSE ""

\* _get_layer_type: every object has __class__, so the test of line 350
\* holds; the keywords are tried in the order of lines 353-366.
get_layer_type(layer_class_name) ==
    LET class_name == class_name_lower(layer_class_name)
    IN  IF contains(class_name, keyword("points")) THEN "points"
        ELSE IF contains(class_name, keyword("labels")) THEN "labels"
        ELSE IF contains(class_name, keyword("shapes")) THEN "shapes"
        ELSE IF contains(class_name, keyword("image")) THEN "image"
        ELSE IF contains(class_name, keyword("surface")) THEN "surface"
        ELSE IF contains(class_name, keyword("tracks")) THEN "tracks"
        ELSE IF contains(class_name, keyword("vectors")) THEN "vectors"
        ELSE "unknown"

---------------------------------------------------------------------------
\* Python dict primitives.

EmptyDict == [k \in {} |-> 0]

\* d[k] = v
Put(d, k, v) == [x \in DOMAIN d \cup {k} |-> IF x = k THEN v ELSE d[x]]

\* d.pop(k, None)
Pop(d, k) == [x \in DOMAIN d \ {k} |-> d[x]]

\* d.get(k, default)
Get(d, k, default) == IF k \in DOMAIN d THEN d[k] ELSE default

---------------------------------------------------------------------------
\* The manager as a record, and its methods as operators on that record.
\* `raised` records an exception escaping the method (a KeyError of a
\* subscript on a missing key); the statements after it do not run.

Fresh ==
    [layer_instances |-> EmptyDict,
     shared_resources |-> EmptyDict,
     resource_ref_counts |-> EmptyDict,
     resource_dependencies |-> EmptyDict,
     raised |-> FALSE]

create_shared_resource(resource_name) ==
    <<"shared", resource_name, "resource">>

\* Mutant: the dependency of layer_type on resource_name is not tracked.
ensure_resource_untracked(m, layer_type, resource_name) ==
    LET m1 == IF resource_name \notin DOMAIN m.shared_resources
              THEN [m EXCEPT
                      !.shared_resources =
                          Put(@, resource_name,
                              create_shared_resource(resource_name)),
                      !.resource_ref_counts = Put(@, resource_name, 0)]
              ELSE m
    IN  IF resource_name \notin DOMAIN m1.resource_ref_counts
        THEN [m1 EXCEPT !.raised = TRUE]
        ELSE LET m2 == [m1 EXCEPT
                          !.resource_ref_counts[resource_name] = @ + 1]
             IN  IF resource_name \notin DOMAIN m2.resource_dependencies
                 THEN [m2 EXCEPT !.resource_dependencies =
                                     Put(@, resource_name, {})]
                 ELSE m2

\* Mutant: the count is set when the category is created and not
\* incremented afterwards.
ensure_resource_count_on_create(m, layer_type, resource_name) ==
    LET m1 == IF resource_name \notin DOMAIN m.shared_resources
              THEN [m EXCEPT
                      !.shared_resources =
                          Put(@, resource_name,
                              create_shared_resource(resource_name)),
                      !.resource_ref_counts = Put(@, resource_name, 1)]
              ELSE m
        m3 == IF resource_name \notin DOMAIN m1.resource_dependencies
              THEN [m1 EXCEPT !.resource_dependencies =
                                  Put(@, resource_name, {})]
              ELSE m1
    IN  [m3 EXCEPT !.resource_dependencies[resource_name] =
                       @ \cup {layer_type}]

\* One iteration of the loop of _ensure_layer_resources.
ensure_resource(m, layer_type, resource_name) ==
    LET m1 == IF resource_name \notin DOMAIN m.shared_resources
              THEN [m EXCEPT
                      !.shared_resources =
                          Put(@, resource_name,
                              create_shared_resource(resource_name)),
                      !.resource_ref_counts = Put(@, resource_name, 0)]
              ELSE m
    IN  IF resource_name \notin DOMAIN m1.resource_ref_counts
        THEN [m1 EXCEPT !.raised = TRUE]
        ELSE LET m2 == [m1 EXCEPT
                          !.resource_ref_counts[resource_name] = @ + 1]
                 m3 == IF resource_name \notin DOMAIN m2.resource_dependencies
                       THEN [m2 EXCEPT !.resource_dependencies =
                                           Put(@, resource_name, {})]
                       ELSE m2
             IN  [m3 EXCEPT !.resource_dependencies[resource_name] =
                                @ \cup {layer_type}]

RECURSIVE ensure_loop(_, _, _, _)
ensure_loop(m, layer_type, required_resources, i) ==
    IF i > Len(required_resources) \/ m.raised
    THEN m
    ELSE ensure_loop(ensure_resource(m, layer_type, required_resources[i]),
                     layer_type, required_resources, i + 1)

\* Mutant: a tag outside the dependency table gets no resource at all.
ensure_layer_resources_known_only(m, layer_type) ==
    IF layer_type \in SevenTags
    THEN ensure_loop(m, layer_type, dependencies(layer_type), 1)
    ELSE m

ensure_layer_resources(m, layer_type) ==
    ensure_loop(m, layer_type, dependencies(layer_type), 1)

\* Lines 67-70 of register_layer: the WeakSet is created and added to.
register_add(m, layer_type, layer_instance) ==
    LET m1 == IF layer_type \notin DOMAIN m.layer_instances
              THEN [m EXCEPT !.layer_instances = Put(@, layer_type, {})]
              ELSE m
    IN  [m1 EXCEPT !.layer_instances[layer_type] = @ \cup {layer_instance}]

\* Mutant: a consumer already in the WeakSet is not counted again.
register_layer_once(m, layer_type, layer_instance) ==
    IF layer_instance \in Get(m.layer_instances, layer_type, {})
    THEN m
    ELSE ensure_layer_resources(
             register_add(m, layer_type, layer_instance), layer_type)

register_layer(m, layer_type, layer_instance) ==
    ensure_layer_resources(register_add(m, layer_type, layer_instance),
                           layer_type)

\* Mutant: the dependents entry is left behind.
safe_cleanup_resource_partial(m, resource_name) ==
    [m EXCEPT !.shared_resources = Pop(@, resource_name),
              !.resource_ref_counts = Pop(@, resource_name)]

safe_cleanup_resource(m, resource_name) ==
    [m EXCEPT !.shared_resources = Pop(@, resource_name),
              !.resource_ref_counts = Pop(@, resource_name),
              !.resource_dependencies = Pop(@, resource_name)]

\* Mutant: the check asks whether a live tag is among the dependents.
still_needed_by_tag(m, resource_name) ==
    \E lt \in DOMAIN m.layer_instances :
        /\ m.layer_instances[lt] # {}
        /\ lt \in Get(m.resource_dependencies, resource_name, {})

\* The still_needed loop of _cleanup_unused_resources.
still_needed(m, resource_name) ==
    \E lt \in DOMAIN m.layer_instances :
        /\ m.layer_instances[lt] # {}
        /\ resource_name \in Get(m.resource_dependencies, resource_name, {})

\* Mutant: the ref count is not consulted before the resource is destroyed.
cleanup_resource_eager(m, removed_layer_type, resource_name) ==
    LET m1 == [m EXCEPT !.resource_dependencies[resource_name] =
                            @ \ {removed_layer_type}]
        m2 == IF resource_name \in DOMAIN m1.resource_ref_counts
              THEN [m1 EXCEPT !.resource_ref_counts[resource_name] = @ - 1]
              ELSE m1
    IN  IF ~still_needed(m2, resource_name)
        THEN safe_cleanup_resource(m2, resource_name)
        ELSE m2

\* Mutant: the ref count is not decremented.
cleanup_resource_nodecrement(m, removed_layer_type, resource_name) ==
    LET m1 == [m EXCEPT !.resource_dependencies[resource_name] =
                            @ \ {removed_layer_type}]
    IN  IF /\ ~still_needed(m1, resource_name)
           /\ Get(m1.resource_ref_counts, resource_name, 0) <= 0
        THEN safe_cleanup_resource(m1, resource_name)
        ELSE m1

\* Lines 205-212 of _cleanup_unused_resources: the dependency is removed
\* and the ref count decremented.
cleanup_decrement(m, removed_layer_type, resource_name) ==
    LET m1 == [m EXCEPT !.resource_dependencies[resource_name] =
                            @ \ {removed_layer_type}]
    IN  IF resource_name \in DOMAIN m1.resource_ref_counts
        THEN [m1 EXCEPT !.resource_ref_counts[resource_name] = @ - 1]
        ELSE m1

\* One iteration of the second loop of _cleanup_unused_resources.
cleanup_resource(m, removed_layer_type, resource_name) ==
    LET m2 == cleanup_decrement(m, removed_layer_type, resource_name)
    IN  IF /\ ~still_needed(m2, resource_name)
           /\ Get(m2.resource_ref_counts, resource_name, 0) <= 0
        THEN safe_cleanup_resource(m2, resource_name)
        ELSE m2

\* Mutant: the resources are taken from the tag's dependency table instead
\* of from the dependents that still list the tag.
resources_to_check_static(m, removed_layer_type) ==
    {r \in DOMAIN m.resource_dependencies : r \in DepSet(removed_layer_type)}

\* Mutant: the cleanup visits every category that has a dependents entry.
resources_to_check_all(m, removed_layer_type) ==
    DOMAIN m.resource_dependencies

\* The first loop of _cleanup_unused_resources.
resources_to_check(m, removed_layer_type) ==
    {r \in DOMAIN m.resource_dependencies :
        removed_layer_type \in m.resource_dependencies[r]}

\* The second loop.  Each iteration reads and writes the entries of its own
\* resource_name only, so the order of the list does not matter.
RECURSIVE cleanup_loop(_, _, _)
cleanup_loop(m, removed_layer_type, todo) ==
    IF todo = {}
    THEN m
    ELSE LET r == CHOOSE x \in todo : TRUE
         IN  cleanup_loop(cleanup_resource(m, removed_layer_type, r),
                          removed_layer_type, todo \ {r})

\* The values still_needed takes in the iterations of the second loop.
RECURSIVE still_needed_values(_, _, _)
still_needed_values(m, removed_layer_type, todo) ==
    IF todo = {}
    THEN {}
    ELSE LET r == CHOOSE x \in todo : TRUE
         IN  {still_needed(cleanup_decrement(m, removed_layer_type, r), r)}
             \cup still_needed_values(
                      cleanup_resource(m, removed_layer_type, r),
                      removed_layer_type, todo \ {r})

cleanup_unused_resources(m, removed_layer_type) ==
    cleanup_loop(m, removed_layer_type,
                 resources_to_check(m, removed_layer_type))

\* Mutant: cleanup runs whether or not the WeakSet became empty.
unregister_layer_always_cleanup(m, layer_type, layer_instance) ==
    IF layer_type \in DOMAIN m.layer_instances
    THEN LET m1 == [m EXCEPT !.layer_instances[layer_type] =
                                 @ \ {layer_instance}]
         IN  cleanup_unused_resources(m1, layer_type)
    ELSE m

\* Lines 87-89 of unregister_layer: the discard.
unregister_discard(m, layer_type, layer_instance) ==
    IF layer_type \in DOMAIN m.layer_instances
    THEN [m EXCEPT !.layer_instances[layer_type] = @ \ {layer_instance}]
    ELSE m

\* Lines 93-94 of unregister_layer: the cleanup of an emptied WeakSet.
unregister_check(m, layer_type) ==
    IF /\ layer_type \in DOMAIN m.layer_instances
       /\ m.layer_instances[layer_type] = {}
    THEN cleanup_unused_resources(m, layer_type)
    ELSE m

unregister_layer(m, layer_type, layer_instance) ==
    unregister_check(unregister_discard(m, layer_type, layer_instance),
                     layer_type)

\* Mutant: the live sets are not cleared.
force_cleanup_all_keep_layers(m) ==
    [m EXCEPT !.shared_resources = EmptyDict,
              !.resource_ref_counts = EmptyDict,
              !.resource_dependencies = EmptyDict]

\* Lines 265-266 of force_cleanup_all.
force_clear_layers(m) ==
    [m EXCEPT !.layer_instances = EmptyDict,
              !.shared_resources = EmptyDict]

\* Lines 267-268 of force_cleanup_all.
force_clear_counts(m) ==
    [m EXCEPT !.resource_ref_counts = EmptyDict,
              !.resource_dependencies = EmptyDict]

force_cleanup_all(m) ==
    force_clear_counts(force_clear_layers(m))

\* Mutant: tags with an empty WeakSet are returned too.
get_active_layer_types_all(m) ==
    DOMAIN m.layer_instances

get_active_layer_types(m) ==
    {lt \in DOMAIN m.layer_instances : m.layer_instances[lt] # {}}

\* list(...), dict(...) and a comprehension build a new object holding the
\* value; an object with an alias is the manager's own dictionary.
NewObject(v) == [alias |-> "", value |-> v]

\* What a reader of the object sees while the manager is m.
Observe(obj, m) == IF obj.alias = "" THEN obj.value ELSE m[obj.alias]

\* Mutant: the ref counts are returned without dict(...).
get_resource_status_return_aliased(m) ==
    [active_layer_types |-> NewObject(get_active_layer_types(m)),
     shared_resources |-> NewObject(DOMAIN m.shared_resources),
     resource_ref_counts |-> [alias |-> "resource_ref_counts", value |-> 0],
     resource_dependencies |-> NewObject(m.resource_dependencies)]

\* The dictionary get_resource_status returns, as objects.
get_resource_status_return(m) ==
    [active_layer_types |-> NewObject(get_active_layer_types(m)),
     shared_resources |-> NewObject(DOMAIN m.shared_resources),
     resource_ref_counts |-> NewObject(m.resource_ref_counts),
     resource_dependencies |-> NewObject(m.resource_dependencies)]

\* The values of a returned dictionary as read while the manager is m.
ReadStatus(st, m) == [f \in DOMAIN st |-> Observe(st[f], m)]

\* The values get_resource_status returns.
get_resource_status(m) ==
    [active_layer_types |-> get_active_layer_types(m),
     shared_resources |-> DOMAIN m.shared_resources,
     resource_ref_counts |-> m.resource_ref_counts,
     resource_dependencies |-> m.resource_dependencies]

\* Mutant: the live sets are plain sets, whose members stay referenced.
collectable_strong(m, layer_instance) ==
    \A lt \in DOMAIN m.layer_instances :
        layer_instance \notin m.layer_instances[lt]

\* Whether an object nothing else references can be collected: a WeakSet
\* holds no strong reference to its members.
collectable(m, layer_instance) == TRUE

\* Mutant: a tag that loses its last consumer is cleaned up at once.
weak_reclaim_with_cleanup(m, layer_instance) ==
    LET n == [m EXCEPT !.layer_instances =
                  [lt \in DOMAIN @ |-> @[lt] \ {layer_instance}]]
        emptied == {lt \in DOMAIN m.layer_instances :
                       m.layer_instances[lt] = {layer_instance}}
    IN  IF emptied = {}
        THEN n
        ELSE cleanup_unused_resources(n, CHOOSE lt \in emptied : TRUE)

\* A consumer object is destroyed: every WeakSet drops it, no method runs.
weak_reclaim(m, layer_instance) ==
    [m EXCEPT !.layer_instances =
        [lt \in DOMAIN @ |-> @[lt] \ {layer_instance}]]

---------------------------------------------------------------------------
\* The state machine.

Mgr ==
    [layer_instances |-> layer_instances,
     shared_resources |-> shared_resources,
     resource_ref_counts |-> resource_ref_counts,
     resource_dependencies |-> resource_dependencies,
     raised |-> FALSE]

NoCall == [op |-> "init", layer_type |-> "", layer_instance |-> 0,
           raised |-> FALSE]

Call(op, layer_type, layer_instance, raised) ==
    [op |-> op, layer_type |-> layer_type,
     layer_instance |-> layer_instance, raised |-> raised]

\* No get_resource_status() result is held.
NoStatus == [held |-> FALSE, result |-> <<>>]

MgrInit ==
    /\ layer_instances = EmptyDict
    /\ shared_resources = EmptyDict
    /\ resource_ref_counts = EmptyDict
    /\ resource_dependencies = EmptyDict
    /\ last = NoCall
    /\ pre = Fresh

StatusInit ==
    /\ snapshot = NoStatus
    /\ snapshot_at = Fresh

\* A layer view that has not been constructed.
NoView == [stage |-> "none", class_name |-> <<>>, layer_type |-> ""]

\* A layer view that was garbage-collected; the object does not come back.
GoneView == [stage |-> "gone", class_name |-> <<>>, layer_type |-> ""]

\* No __init__ or close() of a view has run.
NoTrace ==
    [op |-> "none", view |-> 0, before |-> NoView, layer_type |-> "",
     log |-> <<>>, raised |-> FALSE]

\* No call has been counted.
NoLedger ==
    [registered |-> [r \in Categories |-> 0],
     cleaned |-> [r \in Categories |-> 0],
     destroyed |-> {},
     before_reset |-> {},
     reset |-> FALSE,
     after_reset |-> FALSE]

\* No layer is being classified and no view exists.
ViewInit ==
    /\ layer_class = <<>>
    /\ tags_seen = {}
    /\ views = [c \in Consumers |-> NoView]
    /\ trace = NoTrace

\* What a call returns: a set, a dictionary, or None.
ReturnedSet(v) == [kind |-> "set", elems |-> v]

ReturnedDict(v) == [kind |-> "dict", items |-> v]

None == [kind |-> "None"]

\* No thread has called the manager.
ThreadInit ==
    /\ tpc = [t \in Threads |-> "idle"]
    /\ tcall = [t \in Threads |-> NoCall]
    /\ lock_owner = 0
    /\ lock_count = 0
    /\ ret = [t \in Threads |-> None]
    /\ seq = Fresh
    /\ seq_ret = [t \in Threads |-> None]

\* The module has been imported: its last statement constructed the
\* instance, object 1, and __init__ assigned every attribute once.
ClassInit ==
    /\ cls_instance = 1
    /\ cls_lock = 0
    /\ created = 1
    /\ self_of = [t \in Threads |-> 0]
    /\ attrs = [o \in Objects |-> IF o = 1 THEN Range(InitAttrs) ELSE {}]
    /\ writes = [o \in Objects |->
                    [a \in Range(InitAttrs) |-> IF o = 1 THEN 1 ELSE 0]]

Init ==
    /\ MgrInit
    /\ StatusInit
    /\ dropped = {}
    /\ ViewInit
    /\ ledger = NoLedger
    /\ ThreadInit
    /\ ClassInit

\* The manager becomes n after the call c.
Becomes(n, c) ==
    /\ layer_instances' = n.layer_instances
    /\ shared_resources' = n.shared_resources
    /\ resource_ref_counts' = n.resource_ref_counts
    /\ resource_dependencies' = n.resource_dependencies
    /\ last' = c
    /\ pre' = Mgr

\* The bound on ref counts.
WithinBound(layer_type) ==
    \A r \in DepSet(layer_type) : Get(resource_ref_counts, r, 0) < MaxRef

DoRegister(layer_type, layer_instance) ==
    LET n == register_layer(Mgr, layer_type, layer_instance)
    IN  /\ Becomes([n EXCEPT !.raised = FALSE],
                   Call("register_layer", layer_type, layer_instance,
                        n.raised))
        /\ UNCHANGED aux

DoUnregister(layer_type, layer_instance) ==
    LET n == unregister_layer(Mgr, layer_type, layer_instance)
    IN  /\ Becomes([n EXCEPT !.raised = FALSE],
                   Call("unregister_layer", layer_type, layer_instance,
                        n.raised))
        /\ UNCHANGED aux

Register(layer_type, layer_instance) ==
    /\ WithinBound(layer_type)
    /\ DoRegister(layer_type, layer_instance)

Unregister(layer_type, layer_instance) ==
    DoUnregister(layer_type, layer_instance)

ForceCleanupAll ==
    LET n == force_cleanup_all(Mgr)
    IN  /\ Becomes([n EXCEPT !.raised = FALSE],
                   Call("force_cleanup_all", "", 0, n.raised))
        /\ UNCHANGED aux

Reclaim(layer_instance) ==
    /\ \E lt \in DOMAIN layer_instances :
           layer_instance \in layer_instances[lt]
    /\ Becomes(weak_reclaim(Mgr, layer_instance),
               Call("reclaim", "", layer_instance, FALSE))
    /\ UNCHANGED aux

RegisterAny == \E lt \in Tags, c \in Consumers : Register(lt, c)

UnregisterAny == \E lt \in Tags, c \in Consumers : Unregister(lt, c)

ReclaimAny == \E c \in Consumers : Reclaim(c)

Next == RegisterAny \/ UnregisterAny \/ ReclaimAny \/ ForceCleanupAll

Spec == Init /\ [][Next]_vars

\* register_layer and unregister_layer calls only.
NextCalls == RegisterAny \/ UnregisterAny

SpecCalls == Init /\ [][NextCalls]_vars

\* One consumer registered under each of the seven tags of the dependency
\* table, in any order, and once all seven are registered each of them
\* unregistered, in any order.
RegisterEach ==
    \E lt \in SevenTags, c \in Consumers :
        /\ lt \notin DOMAIN layer_instances
        /\ DoRegister(lt, c)

UnregisterEach ==
    \E lt \in SevenTags :
        /\ DOMAIN layer_instances = SevenTags
        /\ \E c \in layer_instances[lt] : DoUnregister(lt, c)

NextSeven == RegisterEach \/ UnregisterEach

SpecSeven == Init /\ [][NextSeven]_vars

\* Calls and get_resource_status() results held across later calls.
GetResourceStatus ==
    /\ snapshot' = [held |-> TRUE, result |-> get_resource_status_return(Mgr)]
    /\ snapshot_at' = Mgr
    /\ Becomes(Mgr, Call("get_resource_status", "", 0, FALSE))
    /\ UNCHANGED <<dropped, threadVars, classVars, viewVars, ledger>>

\* The calls made around a held result: two tags that share categories.
FewTags == {"points", "shapes"}

RegisterFew == \E lt \in FewTags : Register(lt, 1)

UnregisterFew == \E lt \in FewTags : Unregister(lt, 1)

NextStatus ==
    RegisterFew \/ UnregisterFew \/ ForceCleanupAll \/ GetResourceStatus

SpecStatus == Init /\ [][NextStatus]_vars

\* Consumer lifetimes.  The owner of a consumer drops its last reference
\* without calling unregister_layer; the collector then destroys the object.
\* Only referenced consumers can be passed to a call.
RegisterLive ==
    \E lt \in FewTags, c \in Consumers \ dropped : Register(lt, c)

UnregisterLive ==
    \E lt \in FewTags, c \in Consumers \ dropped : Unregister(lt, c)

Drop(c) ==
    /\ c \notin dropped
    /\ dropped' = dropped \cup {c}
    /\ UNCHANGED <<mgrVars, histVars, statusVars, threadVars, classVars,
                   viewVars, ledger>>

Collect(c) ==
    /\ c \in dropped
    /\ collectable(Mgr, c)
    /\ dropped' = dropped \ {c}
    /\ Becomes(weak_reclaim(Mgr, c), Call("reclaim", "", c, FALSE))
    /\ UNCHANGED <<statusVars, threadVars, classVars, viewVars, ledger>>

DropAny == \E c \in Consumers : Drop(c)

CollectAny == \E c \in Consumers : Collect(c)

NextWeak == RegisterLive \/ UnregisterLive \/ DropAny \/ CollectAny

\* The collector eventually destroys an object that stays unreferenced.
SpecWeak ==
    /\ Init
    /\ [][NextWeak]_vars
    /\ \A c \in Consumers : WF_vars(Collect(c))

---------------------------------------------------------------------------
\* Threads.  Every public method runs inside "with self._resource_lock:",
\* a threading.RLock; a thread's call is a sequence of steps between the
\* acquisition of the lock and its release.

\* Mutant: a lock that never blocks.
can_acquire_always(owner, t) == TRUE

\* Mutant: a threading.Lock, which blocks its own holder.
can_acquire_nonreentrant(owner, t) == owner = 0

\* threading.RLock: free, or held by the acquiring thread itself.
can_acquire(owner, t) == owner \in {0, t}

\* A manager with two live tags, each thread's own object under one.
ThreadStartLive ==
    register_layer(register_layer(Fresh, "points", 1), "shapes", 2)

\* The managers the threads start on: fresh, one tag live, two tags live.
ThreadStarts == {Fresh, register_layer(Fresh, "points", 1), ThreadStartLive}

\* The calls of thread t; the consumer is the thread's own object.
ThreadCalls(t) ==
    {Call(op, lt, t, FALSE) :
        op \in {"register_layer", "unregister_layer"}, lt \in FewTags}
    \cup {Call(op, "", 0, FALSE) :
        op \in {"force_cleanup_all", "get_active_layer_types",
                "get_resource_status"}}

\* The manager after the whole call, run alone.
ApplyCall(m, c) ==
    CASE c.op = "register_layer" ->
            register_layer(m, c.layer_type, c.layer_instance)
      [] c.op = "unregister_layer" ->
            unregister_layer(m, c.layer_type, c.layer_instance)
      [] c.op = "force_cleanup_all" -> force_cleanup_all(m)
      [] OTHER -> m

\* The value of the whole call, run alone.
CallResult(m, c) ==
    CASE c.op = "get_active_layer_types" ->
            ReturnedSet(get_active_layer_types(m))
      [] c.op = "get_resource_status" ->
            ReturnedDict(get_resource_status(m))
      [] OTHER -> None

\* The first step of a method's body.
FirstStep(op) ==
    CASE op = "register_layer" -> "register_add"
      [] op = "unregister_layer" -> "unregister_discard"
      [] op = "force_cleanup_all" -> "force_clear_layers"
      [] op = "get_active_layer_types" -> "active_read"
      [] op = "get_resource_status" -> "status_enter"

InitThreads ==
    /\ \E m \in ThreadStarts :
          /\ layer_instances = m.layer_instances
          /\ shared_resources = m.shared_resources
          /\ resource_ref_counts = m.resource_ref_counts
          /\ resource_dependencies = m.resource_dependencies
          /\ pre = m
          /\ seq = m
    /\ last = NoCall
    /\ StatusInit
    /\ dropped = {}
    /\ ViewInit
    /\ ledger = NoLedger
    /\ tpc = [t \in Threads |-> "idle"]
    /\ tcall = [t \in Threads |-> NoCall]
    /\ lock_owner = 0
    /\ lock_count = 0
    /\ ret = [t \in Threads |-> None]
    /\ seq_ret = [t \in Threads |-> None]
    /\ ClassInit

\* Thread t moves to the step pc.
Goto(t, pc) == tpc' = [tpc EXCEPT ![t] = pc]

\* The manager's dictionaries become n.
Store(n) ==
    /\ layer_instances' = n.layer_instances
    /\ shared_resources' = n.shared_resources
    /\ resource_ref_counts' = n.resource_ref_counts
    /\ resource_dependencies' = n.resource_dependencies

\* Thread t calls a method.
StartCall(t) ==
    /\ tpc[t] = "idle"
    /\ \E c \in ThreadCalls(t) : tcall' = [tcall EXCEPT ![t] = c]
    /\ Goto(t, "acquire")
    /\ UNCHANGED <<mgrVars, histVars, statusVars, dropped, classVars, viewVars, ledger,
                   lock_owner,
                   lock_count, ret, seq, seq_ret>>

\* "with self._resource_lock:" of the called method.  The history applies
\* the whole call at this point.
Acquire(t) ==
    /\ tpc[t] = "acquire"
    /\ can_acquire(lock_owner, t)
    /\ lock_owner' = t
    /\ lock_count' = lock_count + 1
    /\ seq' = ApplyCall(seq, tcall[t])
    /\ seq_ret' = [seq_ret EXCEPT ![t] = CallResult(seq, tcall[t])]
    /\ Goto(t, FirstStep(tcall[t].op))
    /\ UNCHANGED <<mgrVars, histVars, statusVars, dropped, classVars, viewVars, ledger,
                   tcall, ret>>

\* A step of a body that writes the manager.
BodyWrite(t, pc, n, next) ==
    /\ tpc[t] = pc
    /\ Store(n)
    /\ Goto(t, next)
    /\ UNCHANGED <<histVars, statusVars, dropped, classVars, viewVars, ledger,
                   tcall, lock_owner,
                   lock_count, ret, seq, seq_ret>>

\* A step of a body that reads the manager into the value it returns.
BodyRead(t, pc, v, next) ==
    /\ tpc[t] = pc
    /\ ret' = [ret EXCEPT ![t] = v]
    /\ Goto(t, next)
    /\ UNCHANGED <<mgrVars, histVars, statusVars, dropped, classVars, viewVars, ledger,
                   tcall,
                   lock_owner, lock_count, seq, seq_ret>>

RegisterAdd(t) ==
    BodyWrite(t, "register_add",
              register_add(Mgr, tcall[t].layer_type, tcall[t].layer_instance),
              "register_ensure")

RegisterEnsure(t) ==
    BodyWrite(t, "register_ensure",
              ensure_layer_resources(Mgr, tcall[t].layer_type), "release")

UnregisterDiscard(t) ==
    BodyWrite(t, "unregister_discard",
              unregister_discard(Mgr, tcall[t].layer_type,
                                 tcall[t].layer_instance),
              "unregister_check")

UnregisterCheck(t) ==
    BodyWrite(t, "unregister_check",
              unregister_check(Mgr, tcall[t].layer_type), "release")

ForceClearLayers(t) ==
    BodyWrite(t, "force_clear_layers", force_clear_layers(Mgr),
              "force_clear_counts")

ForceClearCounts(t) ==
    BodyWrite(t, "force_clear_counts", force_clear_counts(Mgr), "release")

ActiveRead(t) ==
    BodyRead(t, "active_read", ReturnedSet(get_active_layer_types(Mgr)),
             "release")

\* get_resource_status calls get_active_layer_types, which acquires the
\* lock its caller holds.
StatusEnter(t) ==
    /\ tpc[t] = "status_enter"
    /\ can_acquire(lock_owner, t)
    /\ lock_owner' = t
    /\ lock_count' = lock_count + 1
    /\ Goto(t, "status_active")
    /\ UNCHANGED <<mgrVars, histVars, statusVars, dropped, classVars, viewVars, ledger,
                   tcall, ret, seq,
                   seq_ret>>

StatusActive(t) ==
    BodyRead(t, "status_active", ReturnedSet(get_active_layer_types(Mgr)),
             "status_exit")

\* The end of a "with" block: one level of the lock is given back.
Unlock(t, pc, next) ==
    /\ tpc[t] = pc
    /\ lock_count' = lock_count - 1
    /\ lock_owner' = IF lock_count - 1 = 0 THEN 0 ELSE lock_owner
    /\ Goto(t, next)
    /\ UNCHANGED <<mgrVars, histVars, statusVars, dropped, classVars, viewVars, ledger,
                   tcall, ret, seq,
                   seq_ret>>

StatusExit(t) == Unlock(t, "status_exit", "status_read")

\* The rest of the dictionary get_resource_status returns.
StatusRead(t) ==
    BodyRead(t, "status_read",
             ReturnedDict(
                 [active_layer_types |-> ret[t].elems,
                  shared_resources |-> DOMAIN shared_resources,
                  resource_ref_counts |-> resource_ref_counts,
                  resource_dependencies |-> resource_dependencies]),
             "release")

Release(t) == Unlock(t, "release", "done")

\* A step of thread t inside a call.
ThreadStep(t) ==
    \/ Acquire(t)
    \/ RegisterAdd(t)
    \/ RegisterEnsure(t)
    \/ UnregisterDiscard(t)
    \/ UnregisterCheck(t)
    \/ ForceClearLayers(t)
    \/ ForceClearCounts(t)
    \/ ActiveRead(t)
    \/ StatusEnter(t)
    \/ StatusActive(t)
    \/ StatusExit(t)
    \/ StatusRead(t)
    \/ Release(t)

StartCallAny == \E t \in Threads : StartCall(t)

ThreadStepAny == \E t \in Threads : ThreadStep(t)

NextThreads == StartCallAny \/ ThreadStepAny

SpecThreads == InitThreads /\ [][NextThreads]_vars

\* The threads start on the manager with two live tags.
InitThreadsLive == InitThreads /\ Mgr = ThreadStartLive

\* The scheduler runs every thread that can take a step.
SpecThreadsFair ==
    /\ InitThreadsLive
    /\ [][NextThreads]_vars
    /\ \A t \in Threads : WF_vars(ThreadStep(t))

---------------------------------------------------------------------------
\* Construction.  SharedResourceManager() runs __new__ and then __init__ on
\* the object __new__ returned; the threads below construct while the class
\* has no instance yet.

\* The class statement has run: _instance = None, _lock = threading.Lock().
InitSingleton ==
    /\ MgrInit
    /\ StatusInit
    /\ dropped = {}
    /\ ViewInit
    /\ ledger = NoLedger
    /\ ThreadInit
    /\ cls_instance = 0
    /\ cls_lock = 0
    /\ created = 0
    /\ self_of = [t \in Threads |-> 0]
    /\ attrs = [o \in Objects |-> {}]
    /\ writes = [o \in Objects |-> [a \in Range(InitAttrs) |-> 0]]

\* What a step of a construction leaves alone.
ConstructionFrame ==
    UNCHANGED <<histVars, statusVars, dropped, tcall, lock_owner, lock_count,
                ret, seq, seq_ret, viewVars, ledger>>

\* Thread t calls SharedResourceManager().
Construct(t) ==
    /\ tpc[t] = "idle"
    /\ Goto(t, "new_check")
    /\ UNCHANGED <<mgrVars, classVars>>
    /\ ConstructionFrame

\* __new__, line 29: if cls._instance is None.
NewCheck(t) ==
    /\ tpc[t] = "new_check"
    /\ Goto(t, IF cls_instance = 0 THEN "new_lock" ELSE "new_return")
    /\ UNCHANGED <<mgrVars, classVars>>
    /\ ConstructionFrame

\* __new__, line 30: with cls._lock, a threading.Lock.
NewLock(t) ==
    /\ tpc[t] = "new_lock"
    /\ cls_lock = 0
    /\ cls_lock' = t
    /\ Goto(t, "new_recheck")
    /\ UNCHANGED <<mgrVars, cls_instance, created, self_of, attrs, writes>>
    /\ ConstructionFrame

\* __new__, lines 31-32: the second check and the creation.
NewRecheck(t) ==
    /\ tpc[t] = "new_recheck"
    /\ IF cls_instance = 0
       THEN /\ created' = created + 1
            /\ cls_instance' = created + 1
       ELSE UNCHANGED <<created, cls_instance>>
    /\ Goto(t, "new_unlock")
    /\ UNCHANGED <<mgrVars, cls_lock, self_of, attrs, writes>>
    /\ ConstructionFrame

\* __new__: the end of the with block.
NewUnlock(t) ==
    /\ tpc[t] = "new_unlock"
    /\ cls_lock' = 0
    /\ Goto(t, "new_return")
    /\ UNCHANGED <<mgrVars, cls_instance, created, self_of, attrs, writes>>
    /\ ConstructionFrame

\* __new__, line 33: return cls._instance.
NewReturn(t) ==
    /\ tpc[t] = "new_return"
    /\ self_of' = [self_of EXCEPT ![t] = cls_instance]
    /\ Goto(t, "init_check")
    /\ UNCHANGED <<mgrVars, cls_instance, cls_lock, created, attrs, writes>>
    /\ ConstructionFrame

\* Mutant: __init__ goes on to its assignments whatever the object holds.
InitCheck_unconditional(t) ==
    /\ tpc[t] = "init_check"
    /\ Goto(t, InitAttrs[1])
    /\ UNCHANGED <<mgrVars, classVars>>
    /\ ConstructionFrame

\* __init__, lines 37-38: if hasattr(self, '_initialized'): return.
InitCheck(t) ==
    /\ tpc[t] = "init_check"
    /\ Goto(t, IF "_initialized" \in attrs[self_of[t]]
               THEN "constructed" ELSE InitAttrs[1])
    /\ UNCHANGED <<mgrVars, classVars>>
    /\ ConstructionFrame

\* The dictionaries after the attribute a is assigned an empty one.
init_assign(m, a) ==
    CASE a = "_layer_instances" -> [m EXCEPT !.layer_instances = EmptyDict]
      [] a = "_shared_resources" -> [m EXCEPT !.shared_resources = EmptyDict]
      [] a = "_resource_ref_counts" ->
            [m EXCEPT !.resource_ref_counts = EmptyDict]
      [] a = "_resource_dependencies" ->
            [m EXCEPT !.resource_dependencies = EmptyDict]
      [] OTHER -> m

\* __init__, lines 40-53: one assignment; a thread about to assign the
\* attribute a is at the step named a.
InitAssign(t) ==
    \E i \in DOMAIN InitAttrs :
        /\ tpc[t] = InitAttrs[i]
        /\ attrs' = [attrs EXCEPT ![self_of[t]] = @ \cup {InitAttrs[i]}]
        /\ writes' = [writes EXCEPT ![self_of[t]][InitAttrs[i]] = @ + 1]
        /\ Store(init_assign(Mgr, InitAttrs[i]))
        /\ Goto(t, IF i < Len(InitAttrs)
                   THEN InitAttrs[i + 1] ELSE "constructed")
        /\ UNCHANGED <<cls_instance, cls_lock, created, self_of>>
        /\ ConstructionFrame

\* The thread uses the instance it constructed: it registers its own object
\* under "points".  The attributes register_layer reads must exist.
UseInstance(t) ==
    /\ tpc[t] = "constructed"
    /\ IF Range(InitAttrs) \ {"_initialized"} \subseteq attrs[self_of[t]]
       THEN /\ Store(register_layer(Mgr, "points", t))
            /\ Goto(t, "registered")
       ELSE /\ UNCHANGED mgrVars
            /\ Goto(t, "AttributeError")
    /\ UNCHANGED classVars
    /\ ConstructionFrame

NextSingleton ==
    \E t \in Threads :
        \/ Construct(t)
        \/ NewCheck(t)
        \/ NewLock(t)
        \/ NewRecheck(t)
        \/ NewUnlock(t)
        \/ NewReturn(t)
        \/ InitCheck(t)
        \/ InitAssign(t)
        \/ UseInstance(t)

SpecSingleton == InitSingleton /\ [][NextSingleton]_vars

---------------------------------------------------------------------------
\* Construction after the import.  The module's last statement has
\* constructed and initialized the instance and bound it to the module's
\* _resource_manager; the threads construct SharedResourceManager() again
\* or call get_shared_resource_manager(), and use what they got.

\* The module's _resource_manager: the object constructed at the import.
resource_manager == 1

\* Thread t calls get_shared_resource_manager().
GetSharedResourceManager(t) ==
    /\ tpc[t] = "idle"
    /\ self_of' = [self_of EXCEPT ![t] = resource_manager]
    /\ Goto(t, "constructed")
    /\ UNCHANGED <<mgrVars, cls_instance, cls_lock, created, attrs, writes>>
    /\ ConstructionFrame

NextAgain ==
    \E t \in Threads :
        \/ Construct(t)
        \/ NewCheck(t)
        \/ NewReturn(t)
        \/ InitCheck(t)
        \/ GetSharedResourceManager(t)
        \/ UseInstance(t)

SpecAgain == InitThreads /\ [][NextAgain]_vars

---------------------------------------------------------------------------
\* Classification.  _get_layer_type is called on a layer of any class.

InitClassify ==
    /\ MgrInit
    /\ StatusInit
    /\ dropped = {}
    /\ ThreadInit
    /\ ClassInit
    /\ layer_class \in ClassNames
    /\ tags_seen = {}
    /\ views = [c \in Consumers |-> NoView]
    /\ trace = NoTrace
    /\ ledger = NoLedger

\* A call of _get_layer_type on the layer.
GetLayerType ==
    /\ tags_seen' = tags_seen \cup {get_layer_type(layer_class)}
    /\ UNCHANGED <<mgrVars, histVars, statusVars, dropped, threadVars,
                   classVars, layer_class, views, trace, ledger>>

NextClassify == GetLayerType

SpecClassify == InitClassify /\ [][NextClassify]_vars

---------------------------------------------------------------------------
\* Layer views.  VispyBaseLayer.__init__ registers the view with the manager
\* and close() unregisters it.  A call is one step; `trace` keeps the order
\* of its effects.  __init__ can be left by an exception after any of its
\* statements, and the calls close() makes on the node and on the events
\* can raise the exceptions close() names.

\* The classes of the layers the views show.
ViewClassNames == {<<"P", "o", "i", "n", "t", "s">>}

\* The statements of __init__ in the order of the code.
InitSteps ==
    <<"fields", "texture_sizes", "resource_manager", "register_layer",
      "connect">>

\* How far __init__ got: "bare" left before any attribute was set, "fields"
\* left by get_max_texture_sizes(), "managed" left between its statements
\* after self._resource_manager was set, "registered" left by an event
\* connect, "built" completed.
Stages == {"bare", "fields", "managed", "registered", "built"}

steps_done(stage) ==
    CASE stage = "bare" -> 0
      [] stage = "fields" -> 1
      [] stage = "managed" -> 3
      [] stage = "registered" -> 4
      [] stage = "built" -> 5

\* hasattr(self, name) for the attributes close() reads.
view_attrs(stage) ==
    CASE stage \in {"none", "gone", "bare"} -> {}
      [] stage = "fields" -> {"layer", "node"}
      [] OTHER -> {"layer", "node", "_resource_manager"}

\* layer_type = self._get_layer_type() in __init__.
init_layer_type(class_name) == get_layer_type(class_name)

\* Mutant: close() takes every layer for an unknown one.
close_layer_type_unknown(view) == "unknown"

\* layer_type = self._get_layer_type() in close().
close_layer_type(view) == get_layer_type(view.class_name)

\* __init__ of view c for a layer of class class_name, run up to stage.
view_init(m, c, class_name, stage) ==
    LET done == SubSeq(InitSteps, 1, steps_done(stage))
        layer_type == init_layer_type(class_name)
    IN  [mgr |-> IF "register_layer" \in Range(done)
                 THEN register_layer(m, layer_type, c)
                 ELSE m,
         layer_type |-> IF "register_layer" \in Range(done)
                        THEN layer_type
                        ELSE "",
         log |-> done,
         raised |-> stage # "built"]

\* The exceptions close() names.
ExceptionKinds == {"OSError", "AttributeError", "RuntimeError"}

\* The calls close() makes outside the manager.
NodeSteps == <<"detach", "clear_data", "reset_transform">>

ExternalCalls == Range(NodeSteps) \cup {"disconnect"}

NoFailure == [step |-> "none", kind |-> "none"]

\* At most one of the calls raises, one of the exceptions.
Failures ==
    {NoFailure} \cup [step : ExternalCalls, kind : ExceptionKinds]

\* contextlib.suppress around each call.
suppressed(step) ==
    CASE step \in {"clear_data", "reset_transform"} ->
             {"OSError", "AttributeError"}
      [] OTHER -> {}

\* except (OSError, AttributeError, RuntimeError) of the inner try.
inner_caught == {"OSError", "AttributeError", "RuntimeError"}

\* Mutant: the outer handler catches OSError only.
outer_caught_oserror_only == {"OSError"}

\* except (OSError, AttributeError, RuntimeError) of the outer try.
outer_caught == {"OSError", "AttributeError", "RuntimeError"}

\* The node block from its i-th call on: the effects made and the exception
\* that left the block, "none" if none.
RECURSIVE node_cleanup(_, _)
node_cleanup(i, fail) ==
    IF i > Len(NodeSteps)
    THEN [log |-> <<>>, kind |-> "none"]
    ELSE IF fail.step = NodeSteps[i]
         THEN IF fail.kind \in suppressed(NodeSteps[i])
              THEN node_cleanup(i + 1, fail)
              ELSE [log |-> <<>>, kind |-> fail.kind]
         ELSE LET rest == node_cleanup(i + 1, fail)
              IN  [log |-> <<NodeSteps[i]>> \o rest.log, kind |-> rest.kind]

\* Mutant: the manager is told last.
close_order_unregister_last(unregistered, node_cleaned, disconnected) ==
    node_cleaned \o disconnected \o unregistered

\* The order of the three parts of close().
close_order(unregistered, node_cleaned, disconnected) ==
    unregistered \o node_cleaned \o disconnected

\* close() of view c.
close(m, c, view, fail) ==
    LET has == view_attrs(view.stage)
        layer_type == close_layer_type(view)
        m1 == IF "_resource_manager" \in has
              THEN unregister_layer(m, layer_type, c)
              ELSE m
        unregistered == IF "_resource_manager" \in has
                        THEN <<"unregister_layer">>
                        ELSE <<>>
        e1 == IF m1.raised THEN "KeyError" ELSE "none"
        node == IF e1 = "none" /\ "node" \in has
                THEN node_cleanup(1, fail)
                ELSE [log |-> <<>>, kind |-> "none"]
        e2 == IF e1 # "none" THEN e1
              ELSE IF node.kind \in inner_caught THEN "none"
              ELSE node.kind
        e3 == IF e2 # "none" THEN e2
              ELSE IF "layer" \notin has THEN "AttributeError"
              ELSE IF fail.step = "disconnect" THEN fail.kind
              ELSE "none"
        disconnected == IF e3 = "none" THEN <<"disconnect">>
                        ELSE IF e3 \in outer_caught /\ "layer" \in has
                        THEN <<"disconnect">>
                        ELSE <<>>
    IN  [mgr |-> [m1 EXCEPT !.raised = FALSE],
         layer_type |-> IF "_resource_manager" \in has
                        THEN layer_type
                        ELSE "",
         log |-> close_order(unregistered, node.log, disconnected)
                     \o <<"gc_collect">>,
         raised |-> e3 # "none" /\ e3 \notin outer_caught]

ViewFrame ==
    UNCHANGED <<statusVars, dropped, threadVars, classVars, layer_class,
                tags_seen, ledger>>

ConstructView(c, class_name, stage) ==
    LET r == view_init(Mgr, c, class_name, stage)
    IN  /\ views[c].stage = "none"
        /\ r.layer_type # "" => WithinBound(r.layer_type)
        /\ Becomes([r.mgr EXCEPT !.raised = FALSE],
                   Call("__init__", r.layer_type, c, r.raised))
        /\ views' = [views EXCEPT
                        ![c] = [stage |-> stage, class_name |-> class_name,
                                layer_type |-> r.layer_type]]
        /\ trace' = [op |-> "init", view |-> c, before |-> NoView,
                     layer_type |-> r.layer_type, log |-> r.log,
                     raised |-> r.raised]
        /\ ViewFrame

CloseView(c, fail) ==
    LET r == close(Mgr, c, views[c], fail)
    IN  /\ views[c].stage \in Stages
        /\ Becomes(r.mgr, Call("close", r.layer_type, c, r.raised))
        /\ trace' = [op |-> "close", view |-> c, before |-> views[c],
                     layer_type |-> r.layer_type, log |-> r.log,
                     raised |-> r.raised]
        /\ UNCHANGED views
        /\ ViewFrame

\* View c is garbage: every WeakSet drops it.
CollectView(c) ==
    /\ views[c].stage \in Stages
    /\ Becomes(weak_reclaim(Mgr, c), Call("reclaim", "", c, FALSE))
    /\ views' = [views EXCEPT ![c] = GoneView]
    /\ UNCHANGED trace
    /\ ViewFrame

ConstructAnyView ==
    \E c \in Consumers, class_name \in ViewClassNames, stage \in Stages :
        ConstructView(c, class_name, stage)

CloseAnyView == \E c \in Consumers, fail \in Failures : CloseView(c, fail)

CollectAnyView == \E c \in Consumers : CollectView(c)

NextView == ConstructAnyView \/ CloseAnyView \/ CollectAnyView

SpecView == Init /\ [][NextView]_vars

---------------------------------------------------------------------------
\* The calls counted.  `ledger` counts, per category, the register_layer
\* calls for tags depending on it and the tag cleanups that took a tag from
\* its dependents since its entry was created, and remembers the categories
\* destroyed so far and the consumers live at the latest force_cleanup_all.
\* The calls are made for two tags that share categories.

\* unregister_layer(layer_type, layer_instance) on m reaches the cleanup.
runs_cleanup(m, layer_type, layer_instance) ==
    /\ layer_type \in DOMAIN m.layer_instances
    /\ m.layer_instances[layer_type] \ {layer_instance} = {}

\* The ledger after register_layer(layer_type, ...) on m.
ledger_register(l, m, layer_type) ==
    [l EXCEPT
        !.registered = [r \in Categories |->
                           IF r \notin DepSet(layer_type) THEN l.registered[r]
                           ELSE IF r \in DOMAIN m.shared_resources THEN l.registered[r] + 1
                           ELSE 1],
        !.cleaned = [r \in Categories |->
                        IF r \in DepSet(layer_type) /\ r \notin DOMAIN m.shared_resources
                        THEN 0
                        ELSE l.cleaned[r]],
        !.before_reset = {},
        !.reset = FALSE,
        !.after_reset = l.reset]

\* The ledger after unregister_layer(layer_type, layer_instance) took m to n.
ledger_unregister(l, m, n, layer_type, layer_instance) ==
    LET gone == {r \in Categories : r \in DOMAIN m.shared_resources /\ r \notin DOMAIN n.shared_resources}
        taken == {r \in Categories :
                     /\ runs_cleanup(m, layer_type, layer_instance)
                     /\ layer_type \in Get(m.resource_dependencies, r, {})}
    IN  [l EXCEPT
            !.registered = [r \in Categories |->
                               IF r \in gone THEN 0 ELSE l.registered[r]],
            !.cleaned = [r \in Categories |->
                            IF r \in gone THEN 0
                            ELSE IF r \in taken THEN l.cleaned[r] + 1
                            ELSE l.cleaned[r]],
            !.destroyed = @ \cup gone,
            !.after_reset = FALSE]

\* The ledger after force_cleanup_all() on m.
ledger_force(l, m) ==
    [registered |-> [r \in Categories |-> 0],
     cleaned |-> [r \in Categories |-> 0],
     destroyed |-> l.destroyed \cup DOMAIN m.shared_resources,
     before_reset |-> UNION {{<<lt, c>> : c \in m.layer_instances[lt]} :
                                lt \in DOMAIN m.layer_instances},
     reset |-> TRUE,
     after_reset |-> FALSE]

LedgerFrame ==
    UNCHANGED <<statusVars, dropped, threadVars, classVars, viewVars>>

\* The bound on the calls counted.
WithinLedger(layer_type) ==
    \A r \in DepSet(layer_type) : ledger.registered[r] < MaxRef

RegisterCounted(layer_type, layer_instance) ==
    LET n == register_layer(Mgr, layer_type, layer_instance)
    IN  /\ WithinBound(layer_type)
        /\ WithinLedger(layer_type)
        /\ Becomes([n EXCEPT !.raised = FALSE],
                   Call("register_layer", layer_type, layer_instance,
                        n.raised))
        /\ ledger' = ledger_register(ledger, Mgr, layer_type)
        /\ LedgerFrame

UnregisterCounted(layer_type, layer_instance) ==
    LET n == unregister_layer(Mgr, layer_type, layer_instance)
    IN  /\ Becomes([n EXCEPT !.raised = FALSE],
                   Call("unregister_layer", layer_type, layer_instance,
                        n.raised))
        /\ ledger' = ledger_unregister(ledger, Mgr, n, layer_type,
                                       layer_instance)
        /\ LedgerFrame

ForceCleanupAllCounted ==
    LET n == force_cleanup_all(Mgr)
    IN  /\ Becomes([n EXCEPT !.raised = FALSE],
                   Call("force_cleanup_all", "", 0, n.raised))
        /\ ledger' = ledger_force(ledger, Mgr)
        /\ LedgerFrame

\* A consumer is garbage: no method runs, nothing is counted.
ReclaimCounted(layer_instance) ==
    /\ \E lt \in DOMAIN layer_instances :
           layer_instance \in layer_instances[lt]
    /\ Becomes(weak_reclaim(Mgr, layer_instance),
               Call("reclaim", "", layer_instance, FALSE))
    /\ ledger' = [ledger EXCEPT !.after_reset = FALSE]
    /\ LedgerFrame

RegisterAnyCounted ==
    \E lt \in FewTags, c \in Consumers : RegisterCounted(lt, c)

UnregisterAnyCounted ==
    \E lt \in FewTags, c \in Consumers : UnregisterCounted(lt, c)

ReclaimAnyCounted == \E c \in Consumers : ReclaimCounted(c)

NextLedger ==
    \/ RegisterAnyCounted
    \/ UnregisterAnyCounted
    \/ ReclaimAnyCounted
    \/ ForceCleanupAllCounted

SpecLedger == Init /\ [][NextLedger]_vars

---------------------------------------------------------------------------
\* Properties.

AllTags == Range(LayerTypes)

LiveSet(m, lt) == Get(m.layer_instances, lt, {})

RefCount(m, r) == Get(m.resource_ref_counts, r, 0)

Dependents(m, r) == Get(m.resource_dependencies, r, {})

Present(m, r) == r \in DOMAIN m.shared_resources

IsCall(op) == last.op = op

\* C1: no premature destruction.  In every reachable state, for every tag
\* with a non-empty LiveSet and every category in its dependency set, the
\* category is in the catalog, has ref_count >= 1 and lists the tag in its
\* dependents.
C1_NoPrematureDestruction ==
    \A lt \in DOMAIN layer_instances :
        layer_instances[lt] # {} =>
            \A r \in DepSet(lt) :
                /\ r \in DOMAIN shared_resources
                /\ r \in DOMAIN resource_ref_counts
                /\ resource_ref_counts[r] >= 1
                /\ r \in DOMAIN resource_dependencies
                /\ lt \in resource_dependencies[r]

\* C1 witness: the last consumer of a tag was unregistered and a category
\* was destroyed while another tag sharing a category with it is live.
C1_Witness ==
    /\ IsCall("unregister_layer")
    /\ LiveSet(pre, last.layer_type) # {}
    /\ LiveSet(Mgr, last.layer_type) = {}
    /\ DOMAIN shared_resources # DOMAIN pre.shared_resources
    /\ \E lt \in DOMAIN layer_instances :
           /\ lt # last.layer_type
           /\ layer_instances[lt] # {}
           /\ DepSet(lt) \cap DepSet(last.layer_type) # {}

\* C2: at every point between calls, the ref_count of each category equals
\* the number of tags that depend on it and have a non-empty LiveSet (an
\* absent category counting 0).
C2_RefCountIsLiveTagCount ==
    \A r \in Categories :
        RefCount(Mgr, r) =
            Cardinality({lt \in AllTags :
                            r \in DepSet(lt) /\ LiveSet(Mgr, lt) # {}})

\* C3: once every tag that depends on a category has no live consumer left,
\* the category is absent from the shared_resources, resource_ref_counts and
\* resource_dependencies of get_resource_status().
C3_AbsentAfterLastUnregister ==
    \A r \in Categories :
        (\A lt \in AllTags : r \in DepSet(lt) => LiveSet(Mgr, lt) = {}) =>
            LET status == get_resource_status(Mgr)
            IN  /\ r \notin status.shared_resources
                /\ r \notin DOMAIN status.resource_ref_counts
                /\ r \notin DOMAIN status.resource_dependencies

\* The manager after register_layer("points", c1) on a fresh manager.
AfterPoints(c1) ==
    LET P == {"vertex_buffers", "marker_shaders", "transform_matrices"}
    IN  [layer_instances |-> [lt \in {"points"} |-> {c1}],
         shared_resources |-> [r \in P |-> create_shared_resource(r)],
         resource_ref_counts |-> [r \in P |-> 1],
         resource_dependencies |-> [r \in P |-> {"points"}],
         raised |-> FALSE]

\* The manager after register_layer("shapes", c2) on AfterPoints(c1).
AfterPointsShapes(c1, c2) ==
    LET R == {"vertex_buffers", "marker_shaders", "transform_matrices",
              "geometry_shaders"}
        Both == {"vertex_buffers", "transform_matrices"}
    IN  [layer_instances |->
             [lt \in {"points", "shapes"} |->
                 IF lt = "points" THEN {c1} ELSE {c2}],
         shared_resources |-> [r \in R |-> create_shared_resource(r)],
         resource_ref_counts |-> [r \in R |-> IF r \in Both THEN 2 ELSE 1],
         resource_dependencies |->
             [r \in R |->
                 IF r \in Both THEN {"points", "shapes"}
                 ELSE IF r = "marker_shaders" THEN {"points"}
                 ELSE {"shapes"}],
         raised |-> FALSE]

\* C4: the concrete scenario.  On a fresh manager, registering one points
\* consumer gives transform_matrices, vertex_buffers and marker_shaders
\* ref_count 1; then registering one shapes consumer gives vertex_buffers 2,
\* geometry_shaders 1, marker_shaders 1; then unregistering the points
\* consumer leaves marker_shaders absent, vertex_buffers at 1 with
\* dependents {shapes}, transform_matrices at 1 and present.
C4_Scenario ==
    \A c1 \in Consumers, c2 \in Consumers :
        /\ (last = Call("register_layer", "points", c1, FALSE)
              /\ pre = Fresh) =>
               /\ RefCount(Mgr, "transform_matrices") = 1
               /\ RefCount(Mgr, "vertex_buffers") = 1
               /\ RefCount(Mgr, "marker_shaders") = 1
               /\ Present(Mgr, "transform_matrices")
               /\ Present(Mgr, "vertex_buffers")
               /\ Present(Mgr, "marker_shaders")
        /\ (last = Call("register_layer", "shapes", c2, FALSE)
              /\ pre = AfterPoints(c1)) =>
               /\ RefCount(Mgr, "vertex_buffers") = 2
               /\ RefCount(Mgr, "geometry_shaders") = 1
               /\ RefCount(Mgr, "marker_shaders") = 1
               /\ Present(Mgr, "geometry_shaders")
        /\ (last = Call("unregister_layer", "points", c1, FALSE)
              /\ pre = AfterPointsShapes(c1, c2)) =>
               /\ ~Present(Mgr, "marker_shaders")
               /\ "marker_shaders" \notin DOMAIN resource_ref_counts
               /\ "marker_shaders" \notin DOMAIN resource_dependencies
               /\ Present(Mgr, "vertex_buffers")
               /\ RefCount(Mgr, "vertex_buffers") = 1
               /\ Dependents(Mgr, "vertex_buffers") = {"shapes"}
               /\ Present(Mgr, "transform_matrices")
               /\ RefCount(Mgr, "transform_matrices") = 1

\* C4 witness: the third step of the scenario has run.
C4_Witness ==
    /\ last = Call("unregister_layer", "points", 1, FALSE)
    /\ pre = AfterPointsShapes(1, 2)
    /\ ~Present(Mgr, "marker_shaders")

\* C5: register_layer is idempotent per consumer.  A register_layer(tag, c)
\* call that directly follows a register_layer(tag, c) call leaves the live
\* sets, catalog, ref counts and dependents as the first call left them.
C5_RegisterIdempotent ==
    [][(IsCall("register_layer") /\ last' = last) =>
          UNCHANGED <<layer_instances, shared_resources,
                      resource_ref_counts, resource_dependencies>>]_vars

\* The call was unregister_layer(tag, c) with c not in LiveSet(tag).
UnregisteredNonMember ==
    /\ IsCall("unregister_layer")
    /\ last.layer_instance \notin LiveSet(pre, last.layer_type)

\* The tag's LiveSet entry exists and is empty while some category still
\* lists the tag in its dependents: its consumers were reclaimed without
\* unregister_layer and its cleanup has not run yet.
CleanupPending(m, lt) ==
    /\ lt \in DOMAIN m.layer_instances
    /\ m.layer_instances[lt] = {}
    /\ \E r \in DOMAIN m.resource_dependencies :
           lt \in m.resource_dependencies[r]

\* C6 as stated: unregister_layer(tag, c) for c not in LiveSet(tag) raises
\* nothing and leaves the live sets, catalog, ref counts and dependents
\* unchanged, from any reachable state.
C6_NonMemberUnregisterNoOp ==
    UnregisteredNonMember => (~last.raised /\ Mgr = pre)

\* C6 amended: unregister_layer(tag, c) for c not in LiveSet(tag) raises
\* nothing, and leaves the live sets, catalog, ref counts and dependents
\* unchanged unless tag has an empty LiveSet entry while some category still
\* lists tag in its dependents.
C6_NonMemberUnregisterNoOpUnlessPending ==
    UnregisteredNonMember =>
        /\ ~last.raised
        /\ ~CleanupPending(pre, last.layer_type) => Mgr = pre

\* C6 witness: a consumer that is not registered under a tag is unregistered
\* from it while another consumer of the tag is live.
C6_Witness ==
    /\ UnregisteredNonMember
    /\ LiveSet(pre, last.layer_type) # {}
    /\ \E r \in DepSet(last.layer_type) : RefCount(pre, r) >= 1
    /\ Mgr = pre

\* C7: one consumer registered under each of the seven tags in any order
\* and then all seven unregistered in any order: the catalog, the ref
\* counts and the dependents are empty, no LiveSet is non-empty, and
\* get_resource_status() is that of a fresh manager.
C7_SevenRoundTrip ==
    (/\ DOMAIN layer_instances = SevenTags
     /\ \A lt \in SevenTags : layer_instances[lt] = {}) =>
        /\ shared_resources = EmptyDict
        /\ resource_ref_counts = EmptyDict
        /\ resource_dependencies = EmptyDict
        /\ get_active_layer_types(Mgr) = {}
        /\ get_resource_status(Mgr) = get_resource_status(Fresh)

\* C7 witness: the seventh unregister_layer call has run.
C7_Witness ==
    /\ IsCall("unregister_layer")
    /\ DOMAIN layer_instances = SevenTags
    /\ \A lt \in SevenTags : layer_instances[lt] = {}
    /\ LiveSet(pre, last.layer_type) = {last.layer_instance}

\* C8: force_cleanup_all() ends with all four maps empty, whatever the ref
\* counts and live consumers before it.
C8_ForceCleanupAllEmpties ==
    IsCall("force_cleanup_all") =>
        /\ ~last.raised
        /\ layer_instances = EmptyDict
        /\ shared_resources = EmptyDict
        /\ resource_ref_counts = EmptyDict
        /\ resource_dependencies = EmptyDict

\* C8 witness: force_cleanup_all() ran on a manager with a live consumer
\* and a ref count of 2 or more.
C8_Witness ==
    /\ IsCall("force_cleanup_all")
    /\ \E lt \in DOMAIN pre.layer_instances : pre.layer_instances[lt] # {}
    /\ \E r \in DOMAIN pre.resource_ref_counts :
           pre.resource_ref_counts[r] >= 2
    /\ layer_instances = EmptyDict

\* C9: for every category, ref_count is 0 iff its dependents are empty iff
\* it has no catalog entry.
C9_EntryInvariant ==
    \A r \in Categories :
        /\ (RefCount(Mgr, r) = 0) <=> (Dependents(Mgr, r) = {})
        /\ (Dependents(Mgr, r) = {}) <=> ~Present(Mgr, r)

\* C10: after register_layer(tag, c), c is in LiveSet(tag) and every
\* category of tag's dependency set is in the catalog with ref_count >= 1
\* and tag in its dependents; the categories of the set that were absent
\* before the call are the ones the call created.
C10_RegisterPostcondition ==
    IsCall("register_layer") =>
        /\ ~last.raised
        /\ last.layer_instance \in LiveSet(Mgr, last.layer_type)
        /\ \A r \in DepSet(last.layer_type) :
               /\ Present(Mgr, r)
               /\ shared_resources[r] = create_shared_resource(r)
               /\ RefCount(Mgr, r) >= 1
               /\ last.layer_type \in Dependents(Mgr, r)
        /\ DOMAIN shared_resources \ DOMAIN pre.shared_resources =
               DepSet(last.layer_type) \ DOMAIN pre.shared_resources

\* C10 witness: a register_layer call found one of its categories present
\* and created another.
C10_Witness ==
    /\ IsCall("register_layer")
    /\ DepSet(last.layer_type) \cap DOMAIN pre.shared_resources # {}
    /\ DepSet(last.layer_type) \ DOMAIN pre.shared_resources # {}
    /\ DepSet(last.layer_type) \subseteq DOMAIN shared_resources

\* The catalog, ref count and dependents of category r are the same in m
\* and n.
SameEntry(m, n, r) ==
    /\ Present(m, r) <=> Present(n, r)
    /\ Get(m.shared_resources, r, <<>>) = Get(n.shared_resources, r, <<>>)
    /\ (r \in DOMAIN m.resource_ref_counts) <=>
           (r \in DOMAIN n.resource_ref_counts)
    /\ RefCount(m, r) = RefCount(n, r)
    /\ (r \in DOMAIN m.resource_dependencies) <=>
           (r \in DOMAIN n.resource_dependencies)
    /\ Dependents(m, r) = Dependents(n, r)

\* C11: per-category transition discipline.  A category goes from absent to
\* present only in a register_layer call of a tag that depends on it, and
\* from present to absent only in force_cleanup_all or in an
\* unregister_layer call of a tag that was its only dependent and held its
\* last reference; no other step adds or removes a catalog entry.
C11_TransitionDiscipline ==
    \A r \in Categories :
        /\ (~Present(pre, r) /\ Present(Mgr, r)) =>
               /\ IsCall("register_layer")
               /\ r \in DepSet(last.layer_type)
        /\ (Present(pre, r) /\ ~Present(Mgr, r)) =>
               \/ IsCall("force_cleanup_all")
               \/ /\ IsCall("unregister_layer")
                  /\ Dependents(pre, r) = {last.layer_type}
                  /\ RefCount(pre, r) = 1
                  /\ r \notin DOMAIN resource_ref_counts
                  /\ r \notin DOMAIN resource_dependencies

\* C11 witness: an unregister_layer call destroyed one category of its tag
\* and kept another one that a second tag still depends on.
C11_Witness ==
    /\ IsCall("unregister_layer")
    /\ \E r \in DepSet(last.layer_type) :
           Present(pre, r) /\ ~Present(Mgr, r)
    /\ \E r \in DepSet(last.layer_type) :
           /\ Present(Mgr, r)
           /\ last.layer_type \in Dependents(pre, r)
           /\ Dependents(Mgr, r) # {}

\* C12: register_layer with a tag outside the seven tags of the dependency
\* table raises nothing and creates or increments transform_matrices and no
\* other category; unregistering the last consumer of such a tag decrements
\* transform_matrices and no other category.
C12_UnknownTag ==
    last.layer_type \notin SevenTags =>
        /\ IsCall("register_layer") =>
               /\ ~last.raised
               /\ Present(Mgr, "transform_matrices")
               /\ RefCount(Mgr, "transform_matrices") =
                      RefCount(pre, "transform_matrices") + 1
               /\ last.layer_type \in Dependents(Mgr, "transform_matrices")
               /\ \A r \in Categories \ {"transform_matrices"} :
                      SameEntry(pre, Mgr, r)
        /\ (IsCall("unregister_layer")
              /\ LiveSet(pre, last.layer_type) = {last.layer_instance}) =>
               /\ ~last.raised
               /\ RefCount(Mgr, "transform_matrices") =
                      RefCount(pre, "transform_matrices") - 1
               /\ \A r \in Categories \ {"transform_matrices"} :
                      SameEntry(pre, Mgr, r)

\* C12 witness: the last consumer of the tag unknown was unregistered while
\* other categories existed and transform_matrices had other references.
C12_Witness ==
    /\ last = Call("unregister_layer", "unknown", last.layer_instance, FALSE)
    /\ LiveSet(pre, "unknown") = {last.layer_instance}
    /\ RefCount(pre, "transform_matrices") >= 2
    /\ Present(pre, "vertex_buffers")
    /\ RefCount(Mgr, "transform_matrices") >= 1

\* C13: unregister_layer is idempotent.  In the state an
\* unregister_layer(tag, c) call leaves, the same call again raises nothing
\* and changes nothing.
C13_UnregisterIdempotent ==
    IsCall("unregister_layer") =>
        LET n == unregister_layer(Mgr, last.layer_type, last.layer_instance)
        IN  ~n.raised /\ n = Mgr

\* C13 witness: the first call ran the tag's cleanup, destroying one
\* category and decrementing another that stays.
C13_Witness ==
    /\ IsCall("unregister_layer")
    /\ \E r \in Categories : Present(pre, r) /\ ~Present(Mgr, r)
    /\ \E r \in Categories :
           Present(Mgr, r) /\ RefCount(Mgr, r) = RefCount(pre, r) - 1

\* C18: get_active_layer_types() returns exactly the tags whose LiveSet is
\* non-empty: not a tag whose empty LiveSet entry remains, always a tag with
\* a registered live consumer.
C18_ActiveLayerTypes ==
    /\ get_active_layer_types(Mgr) =
           {lt \in AllTags : LiveSet(Mgr, lt) # {}}
    /\ \A lt \in DOMAIN layer_instances :
           layer_instances[lt] = {} => lt \notin get_active_layer_types(Mgr)

\* C18 witness: one tag keeps an empty LiveSet entry after its consumer was
\* unregistered or reclaimed while another tag has a live consumer.
C18_Witness ==
    /\ \E lt \in DOMAIN layer_instances :
           layer_instances[lt] = {} /\ LiveSet(pre, lt) # {}
    /\ \E lt \in DOMAIN layer_instances : layer_instances[lt] # {}

\* C19: no ref count is negative, the dependents map has no entry for a
\* category absent from the catalog, and every ref count of
\* get_resource_status() is >= 0.
C19_NoNegativeNoStale ==
    /\ \A r \in DOMAIN resource_ref_counts : resource_ref_counts[r] >= 0
    /\ DOMAIN resource_dependencies \subseteq DOMAIN shared_resources
    /\ LET status == get_resource_status(Mgr)
       IN  /\ \A r \in DOMAIN status.resource_ref_counts :
                  status.resource_ref_counts[r] >= 0
           /\ DOMAIN status.resource_dependencies \subseteq
                  status.shared_resources

\* C19 witness: an unregister_layer call by a consumer that was not
\* registered, after a duplicated register_layer left a category with a
\* positive ref count and no dependents.
C19_Witness ==
    /\ UnregisteredNonMember
    /\ \E r \in DOMAIN resource_ref_counts :
           resource_ref_counts[r] >= 1 /\ Dependents(Mgr, r) = {}

\* C17: get_resource_status() returns a point-in-time copy.  The call
\* leaves the manager unchanged, and what the holder of a returned result
\* reads, at the call and after any later register_layer, unregister_layer
\* or force_cleanup_all, is the manager's active tags, category names, ref
\* counts and dependents at the moment of the call.
C17_StatusIsSnapshot ==
    /\ IsCall("get_resource_status") =>
           /\ Mgr = pre
           /\ snapshot.held
           /\ snapshot_at = pre
    /\ snapshot.held =>
           LET seen == ReadStatus(snapshot.result, Mgr)
           IN  /\ seen.active_layer_types =
                      {lt \in AllTags : LiveSet(snapshot_at, lt) # {}}
               /\ seen.shared_resources = DOMAIN snapshot_at.shared_resources
               /\ seen.resource_ref_counts = snapshot_at.resource_ref_counts
               /\ seen.resource_dependencies =
                      snapshot_at.resource_dependencies

\* C17 witness: a result taken with categories in the catalog is still held
\* after a later call changed the ref counts and the dependents.
C17_Witness ==
    /\ snapshot.held
    /\ ~IsCall("get_resource_status")
    /\ snapshot_at.resource_ref_counts # EmptyDict
    /\ resource_ref_counts # snapshot_at.resource_ref_counts
    /\ resource_dependencies # snapshot_at.resource_dependencies

\* C20: weak membership.  A consumer whose last reference is dropped
\* without unregister_layer is eventually in no LiveSet, whatever it was
\* registered under, and a tag left with no live consumer is then not among
\* get_active_layer_types().
C20_WeakMembership ==
    \A c \in Consumers :
        (c \in dropped) ~>
            /\ c \notin dropped
            /\ \A lt \in DOMAIN layer_instances :
                   /\ c \notin layer_instances[lt]
                   /\ layer_instances[lt] = {} =>
                          lt \notin get_active_layer_types(Mgr)

\* C20 witness: the only consumer of a tag was collected while registered;
\* the tag's entry remains, empty, and the tag is not active.
C20_Witness ==
    /\ IsCall("reclaim")
    /\ \E lt \in DOMAIN layer_instances :
           /\ LiveSet(pre, lt) = {last.layer_instance}
           /\ layer_instances[lt] = {}
           /\ lt \notin get_active_layer_types(Mgr)
           /\ lt \in get_active_layer_types(pre)

\* A thread is inside a method body: past the acquisition of the lock and
\* before its release has completed.
InBody(t) == tpc[t] \notin {"idle", "acquire", "done"}

\* C14: atomicity under the manager lock.  At most one thread is inside a
\* method body at a time, and that thread owns the lock; whenever no thread
\* is inside a body the manager equals the one obtained by running the
\* calls one at a time in the order the lock was acquired, and every call
\* that has returned returned the value it returns in that sequential run.
C14_Atomicity ==
    /\ \A t, u \in Threads : InBody(t) /\ InBody(u) => t = u
    /\ \A t \in Threads : InBody(t) => lock_owner = t /\ lock_count >= 1
    /\ (\A t \in Threads : ~InBody(t)) => Mgr = seq /\ lock_owner = 0
    /\ \A t \in Threads : tpc[t] = "done" => ret[t] = seq_ret[t]

\* Two calls contended and both returned: a get_resource_status that saw a
\* non-empty catalog, and a call that changed the manager.
C14_Witness ==
    /\ \A t \in Threads : tpc[t] = "done"
    /\ \E t, u \in Threads :
          /\ t # u
          /\ tcall[t].op = "get_resource_status"
          /\ ret[t].items.shared_resources # {}
          /\ tcall[u].op \in {"unregister_layer", "force_cleanup_all"}
          /\ Mgr.shared_resources # pre.shared_resources

\* C16: no self-deadlock.  Under a scheduler that runs every thread able to
\* take a step, every call that has started returns, the calls that work
\* while the lock is already held included (get_resource_status acquiring
\* it again in get_active_layer_types, unregister_layer running the cleanup):
\* from some point on every thread has either not called or has returned,
\* and the lock is free.
C16_CallsReturn ==
    <>[](/\ \A t \in Threads : tpc[t] \in {"idle", "done"}
         /\ lock_owner = 0
         /\ lock_count = 0)

\* A thread holds the lock twice, inside get_active_layer_types called by
\* get_resource_status, while another thread waits for the lock.
C16_Witness ==
    \E t, u \in Threads :
        /\ t # u
        /\ tpc[t] = "status_active"
        /\ lock_owner = t
        /\ lock_count = 2
        /\ tpc[u] = "acquire"

\* The constructor has returned to thread t.
Constructed(t) == tpc[t] \in {"constructed", "registered", "AttributeError"}

\* The threads that constructed obtained one and the same instance.
SameInstance ==
    \A t, u \in Threads :
        Constructed(t) /\ Constructed(u) => self_of[t] = self_of[u]

\* A thread whose constructor returned holds an instance with its maps and
\* its lock set, and its use of the instance does not raise.
NoUnsetInstance ==
    \A t \in Threads :
        /\ Constructed(t) =>
              Range(InitAttrs) \ {"_initialized"} \subseteq attrs[self_of[t]]
        /\ tpc[t] # "AttributeError"

\* Every attribute of every object is assigned at most once.
InitializedOnce ==
    \A o \in Objects : \A a \in Range(InitAttrs) : writes[o][a] <= 1

\* What a thread registered is not erased by another thread's __init__.
NoReset ==
    \A t \in Threads :
        tpc[t] = "registered" => t \in LiveSet(Mgr, "points")

C25_RegisterIncrementsEveryCall ==
    IsCall("register_layer") =>
        /\ ~last.raised
        /\ \A r \in DepSet(last.layer_type) :
               /\ r \in DOMAIN resource_ref_counts
               /\ resource_ref_counts[r] =
                      (IF r \in DOMAIN pre.resource_ref_counts
                       THEN pre.resource_ref_counts[r] ELSE 0) + 1
               /\ r \in DOMAIN resource_dependencies
               /\ resource_dependencies[r] =
                      Dependents(pre, r) \cup {last.layer_type}

\* C25 witness: the consumer was already registered under the tag, with
\* every category of the tag present, and the call counted it again.
C25_Witness ==
    /\ IsCall("register_layer")
    /\ last.layer_instance \in LiveSet(pre, last.layer_type)
    /\ \A r \in DepSet(last.layer_type) :
           /\ RefCount(pre, r) >= 1
           /\ RefCount(Mgr, r) = RefCount(pre, r) + 1

\* C26: when an unregister_layer(tag, c) call leaves tag's LiveSet empty,
\* every category whose dependents contained tag loses tag from its
\* dependents and 1 from its ref_count, however many register_layer calls
\* for tag had incremented it (the category is destroyed exactly when that
\* leaves no reference); the categories whose dependents did not contain tag
\* keep their entries.
C26_CleanupDecrementsOnce ==
    (IsCall("unregister_layer") /\ LiveSet(Mgr, last.layer_type) = {}) =>
        /\ ~last.raised
        /\ \A r \in Categories :
               IF last.layer_type \in Dependents(pre, r)
               THEN /\ last.layer_type \notin Dependents(Mgr, r)
                    /\ Dependents(Mgr, r) \subseteq Dependents(pre, r)
                    /\ IF RefCount(pre, r) - 1 <= 0
                       THEN ~Present(Mgr, r)
                       ELSE /\ Present(Mgr, r)
                            /\ resource_ref_counts[r] = RefCount(pre, r) - 1
                            /\ resource_dependencies[r] =
                                   Dependents(pre, r) \ {last.layer_type}
               ELSE SameEntry(pre, Mgr, r)

\* C26 witness: the tag had been registered more than once; its cleanup took
\* exactly 1 from a category that only this tag depended on, which stays,
\* while a category of another tag was left alone.
C26_Witness ==
    /\ IsCall("unregister_layer")
    /\ LiveSet(Mgr, last.layer_type) = {}
    /\ \E r \in Categories :
           /\ Dependents(pre, r) = {last.layer_type}
           /\ RefCount(pre, r) >= 2
           /\ RefCount(Mgr, r) = RefCount(pre, r) - 1
    /\ \E r \in Categories :
           /\ Present(pre, r)
           /\ last.layer_type \notin Dependents(pre, r)

\* C28: unregistering a consumer that is not the last live one of its tag
\* changes only that tag's LiveSet.  When LiveSet(tag) is non-empty after an
\* unregister_layer(tag, c) call, the catalog, every ref_count and every
\* dependents set are as before the call, the LiveSet of tag is the one
\* before without c, and every other LiveSet is as before.
C28_NonLastUnregisterFrame ==
    (IsCall("unregister_layer") /\ LiveSet(Mgr, last.layer_type) # {}) =>
        /\ ~last.raised
        /\ shared_resources = pre.shared_resources
        /\ resource_ref_counts = pre.resource_ref_counts
        /\ resource_dependencies = pre.resource_dependencies
        /\ DOMAIN layer_instances = DOMAIN pre.layer_instances
        /\ \A lt \in DOMAIN layer_instances :
               layer_instances[lt] =
                   IF lt = last.layer_type
                   THEN pre.layer_instances[lt] \ {last.layer_instance}
                   ELSE pre.layer_instances[lt]

\* C28 witness: a registered consumer was unregistered while another
\* consumer of the tag stays live.
C28_Witness ==
    /\ IsCall("unregister_layer")
    /\ last.layer_instance \in LiveSet(pre, last.layer_type)
    /\ LiveSet(Mgr, last.layer_type) # {}
    /\ \A r \in DepSet(last.layer_type) : RefCount(Mgr, r) >= 2

\* The manager at the start of the cleanup that the last call ran.
CleanupStart ==
    unregister_discard(pre, last.layer_type, last.layer_instance)

\* The last call was an unregister_layer that ran the cleanup of its tag.
CleanupRan ==
    /\ IsCall("unregister_layer")
    /\ last.layer_type \in DOMAIN pre.layer_instances
    /\ CleanupStart.layer_instances[last.layer_type] = {}

C30_RegisterUnregisterFrame ==
    (IsCall("register_layer") \/ IsCall("unregister_layer")) =>
        /\ \A lt \in AllTags \ {last.layer_type} :
               /\ (lt \in DOMAIN layer_instances) <=>
                      (lt \in DOMAIN pre.layer_instances)
               /\ LiveSet(Mgr, lt) = LiveSet(pre, lt)
        /\ \A r \in Categories \ DepSet(last.layer_type) :
               SameEntry(pre, Mgr, r)

\* C30 witness: a cleanup that destroyed a category ran while another tag
\* had a live consumer and a category of its own.
C30_Witness ==
    /\ IsCall("unregister_layer")
    /\ \E r \in DepSet(last.layer_type) : Present(pre, r) /\ ~Present(Mgr, r)
    /\ \E lt \in AllTags \ {last.layer_type} : LiveSet(Mgr, lt) # {}
    /\ \E r \in Categories \ DepSet(last.layer_type) :
           Present(Mgr, r) /\ RefCount(Mgr, r) >= 1

\* The three resource maps of the status dictionary st have one key set.
StatusKeysAgree(st) ==
    /\ st.shared_resources = DOMAIN st.resource_ref_counts
    /\ st.shared_resources = DOMAIN st.resource_dependencies

\* C27: the three resource maps have the same key set at every quiescent
\* point (no thread inside a method body) and in every dictionary
\* get_resource_status has returned, also with several threads calling: a
\* category is a key of shared_resources iff it is a key of
\* resource_ref_counts iff it is a key of resource_dependencies.
C27_SameKeySets ==
    /\ (\A t \in Threads : ~InBody(t)) =>
           /\ DOMAIN shared_resources = DOMAIN resource_ref_counts
           /\ DOMAIN shared_resources = DOMAIN resource_dependencies
    /\ \A t \in Threads :
           (tpc[t] = "done" /\ tcall[t].op = "get_resource_status") =>
               StatusKeysAgree(ret[t].items)
    /\ snapshot.held => StatusKeysAgree(ReadStatus(snapshot.result, Mgr))

\* C27 witness: get_resource_status has returned a non-empty catalog and a
\* second thread is between the two halves of force_cleanup_all, where the
\* key sets of the maps differ.
C27_Witness ==
    \E t, u \in Threads :
        /\ t # u
        /\ tcall[t].op = "get_resource_status"
        /\ tcall[u].op = "force_cleanup_all"
        /\ tpc[t] = "done"
        /\ tpc[u] = "force_clear_counts"
        /\ ret[t].items.shared_resources # {}
        /\ DOMAIN shared_resources # DOMAIN resource_ref_counts

\* C21: classification is total and pure.  Once _get_layer_type has been
\* called on a layer, every call has returned one and the same tag; the tag
\* is one of points, labels, shapes, image, surface, tracks, vectors and
\* unknown; it is unknown exactly when the lower-cased class name contains
\* none of the seven keywords, and otherwise a keyword the name contains.
C21_ClassificationTotal ==
    tags_seen # {} =>
        /\ Cardinality(tags_seen) = 1
        /\ tags_seen \subseteq AllTags
        /\ \A tag \in tags_seen :
               /\ tag = "unknown" <=>
                      \A k \in SevenTags :
                          ~contains(lower(layer_class), keyword(k))
               /\ tag # "unknown" =>
                      contains(lower(layer_class), keyword(tag))

\* C21 witness: a class name that holds most of a keyword, and no keyword,
\* was classified as unknown.
C21_Witness ==
    /\ tags_seen = {"unknown"}
    /\ contains(lower(layer_class), <<"p", "o", "i", "n", "t">>)

\* The effects of close() that release rendering state the view owns.
Releases == {"detach", "clear_data", "reset_transform", "disconnect"}

\* In the latest call's effects, every `first` comes before every `then`.
Precedes(first, then) ==
    \A i, j \in 1..Len(trace.log) :
        (trace.log[i] = first /\ trace.log[j] \in then) => i < j

\* C22: disposal ordering in the layer view.  Within close(), the
\* unregister_layer call comes before the node is detached, its data
\* cleared, its transform reset and the events disconnected, and a view
\* that holds the manager does call it; within __init__, register_layer
\* comes before any layer event is connected, and events are connected
\* only after it.
C22_DisposalOrdering ==
    /\ trace.op = "close" =>
           /\ Precedes("unregister_layer", Releases)
           /\ "_resource_manager" \in view_attrs(trace.before.stage) =>
                  trace.log[1] = "unregister_layer"
    /\ trace.op = "init" =>
           /\ Precedes("register_layer", {"connect"})
           /\ "connect" \in Range(trace.log) =>
                  "register_layer" \in Range(trace.log)

\* C22 witness: a completely constructed view was closed, and close()
\* unregistered it, released its node and disconnected its events.
C22_Witness ==
    /\ trace.op = "close"
    /\ trace.before.stage = "built"
    /\ "unregister_layer" \in Range(trace.log)
    /\ Releases \subseteq Range(trace.log)

\* The latest step was close() on a view whose __init__ was left before
\* register_layer ran.
ClosedUnregisteredView ==
    /\ last.op = "close"
    /\ trace.op = "close"
    /\ trace.before.stage \in {"bare", "fields", "managed"}

C31_RefCountCoversDependents ==
    /\ \A r \in DOMAIN shared_resources :
           /\ RefCount(Mgr, r) >= Cardinality(Dependents(Mgr, r))
           /\ RefCount(Mgr, r) >= 1
    /\ CleanupRan =>
           \A r \in DOMAIN pre.shared_resources :
               (last.layer_type \in Dependents(pre, r) /\ ~Present(Mgr, r)) =>
                   /\ RefCount(pre, r) = 1
                   /\ Dependents(pre, r) = {last.layer_type}

\* C31 witness: a cleanup destroyed a category that only its tag depended
\* on and kept a category that another tag depends on too, with one
\* reference per dependent tag.
C31_Witness ==
    /\ CleanupRan
    /\ \E r \in DOMAIN pre.shared_resources :
           /\ Dependents(pre, r) = {last.layer_type}
           /\ ~Present(Mgr, r)
    /\ \E r \in DOMAIN shared_resources :
           /\ last.layer_type \in Dependents(pre, r)
           /\ Dependents(Mgr, r) # {}
           /\ RefCount(Mgr, r) = Cardinality(Dependents(Mgr, r))

\* C32: ref-count accounting.  After every call, the ref_count of every
\* category in the catalog equals the number of register_layer calls made,
\* since its current entry was created, for tags whose dependency set
\* contains it, minus the number of tag cleanups since then that took a tag
\* from its dependents.
C32_RefCountAccounting ==
    \A r \in DOMAIN shared_resources :
        RefCount(Mgr, r) = ledger.registered[r] - ledger.cleaned[r]

\* C32 witness: a category has been registered for three times and cleaned
\* once since its entry was created, and its ref_count is 2.
C32_Witness ==
    \E r \in DOMAIN shared_resources :
        /\ ledger.registered[r] = 3
        /\ ledger.cleaned[r] = 1
        /\ RefCount(Mgr, r) = 2

AllEmpty ==
    /\ layer_instances = EmptyDict
    /\ shared_resources = EmptyDict
    /\ resource_ref_counts = EmptyDict
    /\ resource_dependencies = EmptyDict

\* C34: after force_cleanup_all(), an unregister_layer call by a consumer
\* that was registered before the reset raises nothing and leaves all maps
\* empty, and the next register_layer call does what it does on a fresh
\* manager: the tag's LiveSet holds the consumer, and the catalog holds
\* exactly the tag's categories, each with ref_count 1 and dependents {tag}.
C34_LateUnregisterAfterReset ==
    /\ (/\ IsCall("unregister_layer")
        /\ ledger.reset
        /\ <<last.layer_type, last.layer_instance>> \in ledger.before_reset) =>
           (~last.raised /\ AllEmpty)
    /\ (IsCall("register_layer") /\ ledger.after_reset) =>
           /\ ~last.raised
           /\ DOMAIN layer_instances = {last.layer_type}
           /\ layer_instances[last.layer_type] = {last.layer_instance}
           /\ DOMAIN shared_resources = DepSet(last.layer_type)
           /\ DOMAIN resource_ref_counts = DepSet(last.layer_type)
           /\ DOMAIN resource_dependencies = DepSet(last.layer_type)
           /\ \A r \in DepSet(last.layer_type) :
                  /\ resource_ref_counts[r] = 1
                  /\ resource_dependencies[r] = {last.layer_type}

\* C34 witness: a consumer that was live when the manager was reset, its
\* tag's categories destroyed, was unregistered afterwards.
C34_Witness ==
    /\ IsCall("unregister_layer")
    /\ ledger.reset
    /\ <<last.layer_type, last.layer_instance>> \in ledger.before_reset
    /\ DepSet(last.layer_type) \subseteq ledger.destroyed

\* C36: a category that was destroyed can be created again.  A
\* register_layer call for a tag depending on a category that is absent
\* leaves it in the catalog with ref_count exactly 1 and dependents exactly
\* {tag}, whatever count and dependents the entry destroyed earlier had.
C36_RecreatedEntryIsFresh ==
    IsCall("register_layer") =>
        \A r \in DepSet(last.layer_type) :
            ~Present(pre, r) =>
                /\ Present(Mgr, r)
                /\ r \in DOMAIN resource_ref_counts
                /\ r \in DOMAIN resource_dependencies
                /\ resource_ref_counts[r] = 1
                /\ resource_dependencies[r] = {last.layer_type}

\* C36 witness: a category destroyed earlier by a cleanup was created again
\* by a register_layer call while another category of the tag was present
\* with a higher count.
C36_Witness ==
    /\ IsCall("register_layer")
    /\ ~ledger.after_reset
    /\ \E r \in DepSet(last.layer_type) \cap ledger.destroyed :
           /\ ~Present(pre, r)
           /\ RefCount(Mgr, r) = 1
    /\ \E r \in DepSet(last.layer_type) : RefCount(Mgr, r) >= 2

\* The manager m after the threads ts registered their objects under
\* "points".
RECURSIVE UsedBy(_, _)
UsedBy(m, ts) ==
    IF ts = {}
    THEN m
    ELSE LET t == CHOOSE x \in ts : TRUE
         IN  UsedBy(register_layer(m, "points", t), ts \ {t})

\* C35: constructing SharedResourceManager() again, or calling
\* get_shared_resource_manager(), after the instance has been initialized
\* returns the same instance and leaves the live sets, catalog, ref counts
\* and dependents unchanged.  No thread enters the creation of __new__ or
\* the assignments of __init__, no object is created, no attribute is
\* assigned again, every thread gets the instance of the import, and the
\* dictionaries are those of the start with the registrations the threads
\* made through the instance they got.
C35_ConstructAgain ==
    /\ cls_instance = resource_manager
    /\ created = 1
    /\ \A a \in Range(InitAttrs) : writes[resource_manager][a] = 1
    /\ \A t \in Threads :
           /\ tpc[t] \in {"idle", "new_check", "new_return", "init_check",
                          "constructed", "registered"}
           /\ tpc[t] \in {"init_check", "constructed", "registered"} =>
                  self_of[t] = resource_manager
    /\ Mgr = UsedBy(pre, {t \in Threads : tpc[t] = "registered"})

\* C35 witness: on a manager with two live tags one thread has the instance
\* and has registered through it while another thread has got the instance
\* too.
C35_Witness ==
    /\ \E t, u \in Threads :
           /\ tpc[t] = "registered"
           /\ tpc[u] = "constructed"
           /\ self_of[u] = self_of[t]
    /\ LiveSet(Mgr, "shapes") # {}
    /\ pre # Mgr

=============================================================================
